---- MODULE Spec2Model ----
(***************************************************************************)
(* A model of the casino bot's core: the Ledger (utils/database.py), the   *)
(* blackjack SessionEngine (games/blackjack.py) and their callers.         *)
(*                                                                         *)
(* Callers are threads.  Every function of the source is one action; a     *)
(* function that calls another one is cut at its calls, and pc[t] names    *)
(* the source line thread t is about to execute ("get_user:43" is line 43  *)
(* of get_user).  stack[t] holds the lines to return to.                   *)
(***************************************************************************)
EXTENDS Integers, Sequences, FiniteSets, TLC

\* ---------------------------------------------------------------- bounds
NumThreads == 2
NumUsers == 2
NumGames == 1
MaxNow == 3
MaxGlobal == 1

Threads == 1..NumThreads
UserIds == 1..NumUsers
\* session ids a caller may address (uuid4 strings in the source)
GameIds == 1..NumGames

\* ------------------------------------------------------------- constants
StartingBalance == 10000
DailyBonus == 1000
\* None, for a timestamp
NoTime == -1
\* no thread holds the lock
NoThread == 0
\* timedelta(hours=24) and the 'daily' cooldown, in seconds
DaySeconds == 86400
\* max_age_hours * 3600
HourSeconds == 3600

\* the instants the clock is read at
Instants == (0..MaxNow) \cup {DaySeconds - 1, DaySeconds, DaySeconds + 1}

\* amounts callers pass to the ledger and stakes they pass to play
Amounts == {10, StartingBalance + 1}

StatNames ==
  {"slots_played", "slots_won", "roulette_played", "roulette_won",
   "blackjack_played", "blackjack_won", "total_winnings", "total_losses",
   "biggest_win", "biggest_loss", "current_streak", "best_streak"}

\* stat names and values callers pass to update_stats
StatArgs == {"blackjack_played", "total_winnings", "games_played"}
StatValues == {1}

GlobalStatNames == {"total_games", "total_bets", "total_payouts"}
GlobalStatArgs == {"total_games", "total_users"}

VARIABLES
  users,         \* self.data['users']: user id -> account, for the ids present
  user_order,    \* the keys of self.data['users'] in the order the dict
                 \* holds them (a dict keeps insertion order)
  global_stats,  \* self.data['global_stats']
  disk,          \* the backing file casino_data.json
  save_error,    \* whether the last _save_data printed "Error saving data"
  lock,          \* self._lock: the thread holding it, or NoThread
  now,           \* the clock (datetime.now(), time.time())
  active_games,  \* BlackjackGame.active_games: the ids it holds
  games,         \* the game_state dicts ever built, by game id
  pc,            \* per thread: the line it is at, "idle" or "done"
  stack,         \* per thread: the lines its callers continue at
  call,          \* per thread: the operation its caller invoked, with arguments
  frame,         \* per thread: arguments and locals of the ledger call in progress
  ret,           \* per thread: what the operation returned to its caller
  user_cooldowns, \* RateLimiter.user_cooldowns: user id -> action -> last time
  cooldowns,     \* RateLimiter.cooldowns: action -> seconds
  last_allowed,  \* history: when check_rate_limit last said True, per user
                 \* and action (never read by the program)
  answer         \* what the last RateLimiter call was and returned

vars == <<users, user_order, global_stats, disk, save_error, lock, now,
          active_games,
          games,
          pc, stack, call, frame, ret,
          user_cooldowns, cooldowns, last_allowed, answer>>

\* the state of the RateLimiter
limiter == <<user_cooldowns, cooldowns, last_allowed, answer>>

\* the state of the Database, of the BlackjackGame and of their callers
ledger == <<users, user_order, global_stats, disk, save_error, lock,
            active_games,
            games,
            pc, stack, call, frame, ret>>

\* ------------------------------------------------------------ the store

NewStats == [s \in StatNames |-> 0]

\* a new account that counts as having claimed the bonus (a variant for
\* checking)
NewUser_stamped(time) ==
  [balance |-> StartingBalance, total_bet |-> 0, total_won |-> 0,
   games_played |-> 0, last_daily |-> time, stats |-> NewStats,
   created_at |-> time, last_played |-> time]

\* the account get_user creates, lines 48-70
NewUser(time) ==
  [balance |-> StartingBalance, total_bet |-> 0, total_won |-> 0,
   games_played |-> 0, last_daily |-> NoTime, stats |-> NewStats,
   created_at |-> time, last_played |-> time]

\* the empty dict
EmptyMap == [x \in {} |-> 0]

DefaultData ==
  [users |-> EmptyMap, order |-> <<>>,
   global_stats |-> [s \in GlobalStatNames |-> 0]]

\* what a file json.load cannot parse holds: nothing the program can use
Garbage ==
  [users |-> EmptyMap, order |-> <<>>,
   global_stats |-> [s \in GlobalStatNames |-> NoTime]]

\* the file: absent, unparseable, or holding a document
MissingFile == [state |-> "missing", doc |-> DefaultData]
CorruptFile == [state |-> "corrupt", doc |-> Garbage]
FileOf(doc) == [state |-> "ok", doc |-> doc]

\* _load_data without the except clause of line 19 (a variant for checking)
_load_data_trusting(file) ==
  IF file.state # "missing" THEN file.doc ELSE DefaultData

\* Database._load_data: json.load of an existing file, else the default
_load_data(file) == IF file.state = "ok" THEN file.doc ELSE DefaultData

\* Database._save_data: the document is written; or open() fails and the
\* old file stays; or the write fails after open() emptied the file.  In
\* the last two cases the IOError is printed and swallowed.
_save_data(doc) ==
  \/ /\ disk' = FileOf(doc)
     /\ save_error' = FALSE
  \/ /\ disk' \in {disk, CorruptFile}
     /\ save_error' = TRUE

\* the files the process may find when it starts
InitialFiles ==
  {MissingFile, CorruptFile,
   FileOf([users |-> (1 :> NewUser(0)), order |-> <<1>>,
           global_stats |-> [s \in GlobalStatNames |-> 0]])}

Remove(f, k) == [x \in DOMAIN f \ {k} |-> f[x]]

\* --------------------------------------------------------- RateLimiter

\* RateLimiter.__init__: cooldown periods in seconds
CooldownTable ==
  [game |-> 3, balance |-> 5, daily |-> DaySeconds, leaderboard |-> 10,
   stats |-> 5]

\* the actions callers ask about; "help" has no configured cooldown
ActionArgs == {"game", "daily", "help"}

\* max_age_hours given to cleanup_old_entries (24 is its default)
MaxAgeArgs == {0, 24}

\* (action, seconds) given to set_custom_cooldown
CustomArgs == {<<"game", 2>>}

NoAnswer == [op |-> "none", user |-> 0, action |-> "", val |-> FALSE]

\* ------------------------------------------------------------- threads

NoCall == [op |-> "none", user |-> 0, amount |-> 0, stat |-> "", game |-> 0,
           bal0 |-> 0, last0 |-> NoTime, stats0 |-> NewStats,
           gate |-> "none"]
NoFrame == [user |-> 0, amount |-> 0, stat |-> "", user_data |-> NewUser(0)]
NoRet == [tag |-> "none"]

\* call[t].bal0, call[t].last0 and call[t].stats0 keep the user's balance,
\* last_daily and stats as they were when the operation was invoked (for
\* stating its effect)

\* the balance a reference to user u finds (a first reference creates it)
BalanceOf(u) ==
  IF u \in DOMAIN users THEN users[u].balance ELSE StartingBalance

\* The process starts on one of files: CasinoBot.__init__ builds the
\* Database from the file, an empty RateLimiter and an empty BlackjackGame.
StartFrom(files) ==
  /\ disk \in files
  /\ users = _load_data(disk).users
  /\ user_order = _load_data(disk).order
  /\ global_stats = _load_data(disk).global_stats
  /\ save_error = FALSE
  /\ lock = NoThread
  /\ now = 0
  /\ active_games = {}
  /\ games = EmptyMap
  /\ pc = [t \in Threads |-> "idle"]
  /\ stack = [t \in Threads |-> <<>>]
  /\ call = [t \in Threads |-> NoCall]
  /\ frame = [t \in Threads |-> NoFrame]
  /\ ret = [t \in Threads |-> NoRet]
  /\ user_cooldowns = EmptyMap
  /\ cooldowns = CooldownTable
  /\ last_allowed = EmptyMap
  /\ answer = NoAnswer

Init == StartFrom(InitialFiles)

\* A caller invokes operation op: the thread enters at line first.
Invoke(t, op, first, u, a, s, g) ==
  /\ pc[t] \in {"idle", "done"}
  /\ pc' = [pc EXCEPT ![t] = first]
  /\ stack' = [stack EXCEPT ![t] = <<>>]
  /\ call' = [call EXCEPT ![t] =
       [op |-> op, user |-> u, amount |-> a, stat |-> s, game |-> g,
        bal0 |-> IF u \in UserIds THEN BalanceOf(u) ELSE 0,
        last0 |-> IF u \in DOMAIN users THEN users[u].last_daily ELSE NoTime,
        stats0 |-> LET owner == IF g \in DOMAIN games
                                  THEN games[g].user_id ELSE u
                   IN IF owner \in DOMAIN users
                        THEN users[owner].stats ELSE NewStats,
        gate |-> "none"]]
  /\ frame' = [frame EXCEPT ![t] =
       [user |-> u, amount |-> a, stat |-> s, user_data |-> NewUser(0)]]
  /\ ret' = [ret EXCEPT ![t] = NoRet]
  /\ UNCHANGED <<users, global_stats, disk, save_error, lock, now,
                 active_games, games>>
  /\ UNCHANGED user_order
  /\ UNCHANGED limiter

\* A function calls a ledger function with arguments (u, a, s), entering it
\* at line first: continue at line back when it returns.
CallFrom(t, first, back, u, a, s) ==
  /\ pc' = [pc EXCEPT ![t] = first]
  /\ stack' = [stack EXCEPT ![t] = <<back>> \o stack[t]]
  /\ frame' = [frame EXCEPT ![t].user = u, ![t].amount = a, ![t].stat = s]

\* A function returns value v (tagged tag): to the line on top of the stack,
\* or to the caller of the operation.
ReturnTo(t, tag, v) ==
  IF stack[t] = <<>>
    THEN /\ pc' = [pc EXCEPT ![t] = "done"]
         /\ ret' = [ret EXCEPT ![t] = [tag |-> tag, val |-> v]]
         /\ frame' = [frame EXCEPT ![t] = NoFrame]
         /\ UNCHANGED stack
    ELSE /\ pc' = [pc EXCEPT ![t] = Head(stack[t])]
         /\ stack' = [stack EXCEPT ![t] = Tail(stack[t])]
         /\ frame' = [frame EXCEPT ![t].user_data =
                        IF tag = "user" THEN v ELSE @]
         /\ UNCHANGED ret

\* ------------------------------------------------------------- the lock

\* the lines `with self._lock:` and the first line of each block
LockLines ==
  [l \in {"get_user:43", "add_balance:80", "subtract_balance:89",
          "update_stats:102", "claim_daily:137", "update_global_stats:172",
          "reset_user_data:200"} |->
     CASE l = "get_user:43" -> "get_user:44"
       [] l = "add_balance:80" -> "add_balance:81"
       [] l = "subtract_balance:89" -> "subtract_balance:90"
       [] l = "update_stats:102" -> "update_stats:103"
       [] l = "claim_daily:137" -> "claim_daily:138"
       [] l = "update_global_stats:172" -> "update_global_stats:173"
       [] l = "reset_user_data:200" -> "reset_user_data:201"]

\* threading.Lock.acquire: a plain lock, not re-entrant.  The thread waits
\* while anybody holds it, itself included.
Lock_acquire(t) ==
  /\ pc[t] \in DOMAIN LockLines
  /\ lock = NoThread
  /\ lock' = t
  /\ pc' = [pc EXCEPT ![t] = LockLines[pc[t]]]
  /\ UNCHANGED <<users, global_stats, disk, save_error, now, active_games, games,
                 stack, call, frame, ret>>
  /\ UNCHANGED user_order
  /\ UNCHANGED limiter

\* threading.Lock.release, at the end of a with block
Lock_release == lock' = NoThread

\* --------------------------------------------------------------- Ledger

\* Database.get_user, lines 44-76, holding the lock
get_user(t) ==
  /\ pc[t] = "get_user:44"
  /\ LET u == frame[t].user
         isNew == u \notin DOMAIN users
         users1 == IF isNew
                     THEN users @@ (u :> NewUser(now))
                     ELSE [users EXCEPT ![u].last_played = now]
         order1 == IF isNew THEN Append(user_order, u) ELSE user_order
     IN /\ users' = users1
        /\ user_order' = order1
        /\ IF isNew
             THEN _save_data([users |-> users1, order |-> order1,
                              global_stats |-> global_stats])
             ELSE UNCHANGED <<disk, save_error>>
        /\ Lock_release
        /\ ReturnTo(t, "user", users1[u])
  /\ UNCHANGED <<global_stats, now, active_games, games, call>>
  /\ UNCHANGED limiter

\* Database.add_balance: line 81 calls get_user, lines 82-85 credit
add_balance(t) ==
  /\ pc[t] \in {"add_balance:81", "add_balance:82"}
  /\ IF pc[t] = "add_balance:81"
       THEN /\ CallFrom(t, "get_user:43", "add_balance:82",
                          frame[t].user, frame[t].amount, frame[t].stat)
            /\ UNCHANGED <<users, disk, save_error, lock, ret>>
       ELSE LET u == frame[t].user
                users1 == [users EXCEPT ![u].balance = @ + frame[t].amount]
            IN /\ users' = users1
               /\ _save_data([users |-> users1, order |-> user_order,
                              global_stats |-> global_stats])
               /\ Lock_release
               /\ ReturnTo(t, "none", 0)
  /\ UNCHANGED <<global_stats, now, active_games, games, call>>
  /\ UNCHANGED user_order
  /\ UNCHANGED limiter

\* Database.subtract_balance: line 90 calls get_user, lines 91-98 debit
subtract_balance(t) ==
  /\ pc[t] \in {"subtract_balance:90", "subtract_balance:91"}
  /\ IF pc[t] = "subtract_balance:90"
       THEN /\ CallFrom(t, "get_user:43", "subtract_balance:91",
                          frame[t].user, frame[t].amount, frame[t].stat)
            /\ UNCHANGED <<users, disk, save_error, lock, ret>>
       ELSE LET u == frame[t].user
                a == frame[t].amount
                users1 == [users EXCEPT ![u].balance = @ - a,
                                        ![u].total_bet = @ + a]
            IN IF frame[t].user_data.balance >= a
                 THEN /\ users' = users1
                      /\ _save_data([users |-> users1, order |-> user_order,
                              global_stats |-> global_stats])
                      /\ Lock_release
                      /\ ReturnTo(t, "bool", TRUE)
                 ELSE /\ UNCHANGED <<users, disk, save_error>>
                      /\ Lock_release
                      /\ ReturnTo(t, "bool", FALSE)
  /\ UNCHANGED <<global_stats, now, active_games, games, call>>
  /\ UNCHANGED user_order
  /\ UNCHANGED limiter

\* Database.update_stats: line 103 calls get_user, lines 104-120 update
update_stats(t) ==
  /\ pc[t] \in {"update_stats:103", "update_stats:104"}
  /\ IF pc[t] = "update_stats:103"
       THEN /\ CallFrom(t, "get_user:43", "update_stats:104",
                          frame[t].user, frame[t].amount, frame[t].stat)
            /\ UNCHANGED <<users, disk, save_error, lock, ret>>
       ELSE LET u == frame[t].user
                s == frame[t].stat
                v == frame[t].amount
                st == users[u].stats
                st1 == [st EXCEPT ![s] = @ + v]
                st2 == IF s = "total_winnings" /\ v > 0 /\ v > st1.biggest_win
                         THEN [st1 EXCEPT !.biggest_win = v] ELSE st1
                st3 == IF s = "total_losses" /\ v > 0 /\ v > st2.biggest_loss
                         THEN [st2 EXCEPT !.biggest_loss = v] ELSE st2
                users1 == [users EXCEPT ![u].stats = st3]
            IN /\ IF s \in DOMAIN st
                    THEN /\ users' = users1
                         /\ _save_data([users |-> users1, order |-> user_order,
                              global_stats |-> global_stats])
                    ELSE UNCHANGED <<users, disk, save_error>>
               /\ Lock_release
               /\ ReturnTo(t, "none", 0)
  /\ UNCHANGED <<global_stats, now, active_games, games, call>>
  /\ UNCHANGED user_order
  /\ UNCHANGED limiter

\* Database.claim_daily: line 139 stamps last_daily (KeyError for an unknown
\* user), line 140 calls add_balance, then the with block ends
claim_daily(t) ==
  /\ pc[t] \in {"claim_daily:138", "claim_daily:141"}
  /\ IF pc[t] = "claim_daily:138"
       THEN IF frame[t].user \in DOMAIN users
              THEN /\ users' = [users EXCEPT ![frame[t].user].last_daily = now]
                   /\ CallFrom(t, "add_balance:80", "claim_daily:141",
                               frame[t].user, frame[t].amount, "")
                   /\ UNCHANGED <<lock, ret>>
              ELSE /\ Lock_release
                   /\ pc' = [pc EXCEPT ![t] = "done"]
                   /\ stack' = [stack EXCEPT ![t] = <<>>]
                   /\ frame' = [frame EXCEPT ![t] = NoFrame]
                   /\ ret' = [ret EXCEPT ![t] = [tag |-> "raise", val |-> "KeyError"]]
                   /\ UNCHANGED users
       ELSE /\ Lock_release
            /\ ReturnTo(t, "none", 0)
            /\ UNCHANGED users
  /\ UNCHANGED <<global_stats, disk, save_error, now, active_games, games, call>>
  /\ UNCHANGED user_order
  /\ UNCHANGED limiter

\* Database.update_global_stats, lines 173-175, holding the lock
update_global_stats(t) ==
  /\ pc[t] = "update_global_stats:173"
  /\ LET s == frame[t].stat
         g1 == [global_stats EXCEPT ![s] = @ + frame[t].amount]
     IN IF s \in DOMAIN global_stats
          THEN /\ global_stats' = g1
               /\ _save_data([users |-> users, order |-> user_order,
                           global_stats |-> g1])
          ELSE UNCHANGED <<global_stats, disk, save_error>>
  /\ Lock_release
  /\ ReturnTo(t, "none", 0)
  /\ UNCHANGED <<users, now, active_games, games, call>>
  /\ UNCHANGED user_order
  /\ UNCHANGED limiter

\* Database.reset_user_data, lines 201-204, holding the lock
reset_user_data(t) ==
  /\ pc[t] = "reset_user_data:201"
  /\ LET u == frame[t].user
         users1 == Remove(users, u)
         order1 == SelectSeq(user_order, LAMBDA x : x # u)
     IN IF u \in DOMAIN users
          THEN /\ users' = users1
               /\ user_order' = order1
               /\ _save_data([users |-> users1, order |-> order1,
                              global_stats |-> global_stats])
          ELSE UNCHANGED <<users, user_order, disk, save_error>>
  /\ Lock_release
  /\ ReturnTo(t, "none", 0)
  /\ UNCHANGED <<global_stats, now, active_games, games, call>>
  /\ UNCHANGED limiter

\* ------------------------------------------------- callers of the Ledger

Invoke_get_user(t) ==
  \E u \in UserIds : Invoke(t, "get_user", "get_user:43", u, 0, "", 0)

Invoke_add_balance(t) ==
  \E u \in UserIds, a \in Amounts :
    Invoke(t, "add_balance", "add_balance:80", u, a, "", 0)

Invoke_subtract_balance(t) ==
  \E u \in UserIds, a \in Amounts :
    Invoke(t, "subtract_balance", "subtract_balance:89", u, a, "", 0)

Invoke_update_stats(t) ==
  \E u \in UserIds, s \in StatArgs, v \in StatValues :
    Invoke(t, "update_stats", "update_stats:102", u, v, s, 0)

Invoke_claim_daily(t) ==
  \E u \in UserIds :
    Invoke(t, "claim_daily", "claim_daily:137", u, DailyBonus, "", 0)

Invoke_update_global_stats(t) ==
  \E s \in GlobalStatArgs :
    /\ s \in DOMAIN global_stats => global_stats[s] < MaxGlobal
    /\ Invoke(t, "update_global_stats", "update_global_stats:172", 0, 1, s, 0)

Invoke_reset_user_data(t) ==
  \E u \in UserIds :
    Invoke(t, "reset_user_data", "reset_user_data:200", u, 0, "", 0)

\* ------------------------------------------------------------ Blackjack

Ranks == {"A", "2", "3", "4", "5", "6", "7", "8", "9", "10", "J", "Q", "K"}
Suits == {"spades", "hearts", "diamonds", "clubs"}
Cards == [rank : Ranks, suit : Suits]

card_values ==
  [r \in Ranks |->
     CASE r = "A" -> 11
       [] r \in {"J", "Q", "K", "10"} -> 10
       [] r = "2" -> 2 [] r = "3" -> 3 [] r = "4" -> 4 [] r = "5" -> 5
       [] r = "6" -> 6 [] r = "7" -> 7 [] r = "8" -> 8 [] r = "9" -> 9]

card_value(card) == card_values[card.rank]

\* create_deck: the 52 cards in any order
create_deck ==
  {d \in [1..52 -> Cards] : \A i, j \in 1..52 : d[i] = d[j] => i = j}

\* the for loop of hand_value: <<value, aces>> over hand[1..n]
RECURSIVE HandSum(_, _)
HandSum(hand, n) ==
  IF n = 0 THEN <<0, 0>>
  ELSE LET r == HandSum(hand, n - 1)
       IN IF hand[n].rank = "A"
            THEN <<r[1] + 11, r[2] + 1>>
            ELSE <<r[1] + card_value(hand[n]), r[2]>>

\* hand_value demoting at most one ace (a variant for checking)
DemoteAces_once(value, aces) ==
  IF value > 21 /\ aces > 0 THEN value - 10 ELSE value

\* the while loop of hand_value
RECURSIVE DemoteAces(_, _)
DemoteAces(value, aces) ==
  IF value > 21 /\ aces > 0 THEN DemoteAces(value - 10, aces - 1) ELSE value

hand_value(hand) ==
  LET r == HandSum(hand, Len(hand)) IN DemoteAces(r[1], r[2])

is_blackjack(hand) == Len(hand) = 2 /\ hand_value(hand) = 21

\* the for loop of should_dealer_hit: <<temp_value, has_ace_as_11>>
RECURSIVE Soft17Scan(_, _)
Soft17Scan(hand, n) ==
  IF n = 0 THEN <<0, FALSE>>
  ELSE LET r == Soft17Scan(hand, n - 1)
       IN IF hand[n].rank = "A"
            THEN <<r[1] + 11, r[2] \/ r[1] + 11 <= 17>>
            ELSE <<r[1] + card_value(hand[n]), r[2]>>

should_dealer_hit(dealer_hand) ==
  LET value == hand_value(dealer_hand)
      r == Soft17Scan(dealer_hand, Len(dealer_hand))
  IN IF value < 17 THEN TRUE
     ELSE IF value = 17 THEN r[2] /\ r[1] = 17
     ELSE FALSE

\* int(bet * 2.5) and int(bet * 1.5): the product truncated towards zero
IntTimes2_5(bet) ==
  IF bet >= 0 THEN (5 * bet) \div 2 ELSE 0 - ((5 * (0 - bet)) \div 2)
IntTimes1_5(bet) ==
  IF bet >= 0 THEN (3 * bet) \div 2 ELSE 0 - ((3 * (0 - bet)) \div 2)

\* list.pop(): the last element, and the list without it
Last(seq) == seq[Len(seq)]
Front(seq) == SubSeq(seq, 1, Len(seq) - 1)

\* the card back format_hand shows for a hidden card
CardBack == [rank |-> "?", suit |-> "?"]

\* format_hand that never hides (a variant for checking)
format_hand_open(hand, hide_first) == hand

\* format_hand: the cards, the first one replaced by the card back if hidden
format_hand(hand, hide_first) ==
  IF hide_first /\ Len(hand) > 0 THEN <<CardBack>> \o Tail(hand) ELSE hand

\* _format_game_result; payout and net_gain are present (has_payout) only
\* when the game has a result, and dealer_value is <<>> for '?'
_format_game_result(game) ==
  LET hide == game.game_state = "playing"
      res == game.result
      bet == game.bet
  IN [game_id |-> game.game_id,
      game_state |-> game.game_state,
      bet |-> bet,
      player_hand |-> format_hand(game.player_hand, FALSE),
      dealer_hand |-> format_hand(game.dealer_hand, hide),
      player_value |-> hand_value(game.player_hand),
      dealer_value |-> IF hide THEN <<>> ELSE <<hand_value(game.dealer_hand)>>,
      result |-> res,
      has_payout |-> res # "none",
      payout |-> CASE res = "none" -> 0
                   [] res = "player_blackjack" -> IntTimes2_5(bet)
                   [] res \in {"player_wins", "dealer_bust"} -> bet * 2
                   [] res = "push" -> bet
                   [] OTHER -> 0,
      net_gain |-> CASE res = "none" -> 0
                     [] res = "player_blackjack" -> IntTimes1_5(bet)
                     [] res \in {"player_wins", "dealer_bust"} -> bet
                     [] res = "push" -> 0
                     [] OTHER -> 0 - bet]

\* {'error': 'Game not found or already finished'}
GameNotFound == "Game not found or already finished"

\* An exception nobody catches ends the operation.
Raise(t, exc) ==
  /\ pc' = [pc EXCEPT ![t] = "done"]
  /\ stack' = [stack EXCEPT ![t] = <<>>]
  /\ frame' = [frame EXCEPT ![t] = NoFrame]
  /\ ret' = [ret EXCEPT ![t] = [tag |-> "raise", val |-> exc]]

\* A function calls a method that takes no lock at its first line.
Enter(t, first, back) ==
  /\ pc' = [pc EXCEPT ![t] = first]
  /\ stack' = [stack EXCEPT ![t] = <<back>> \o stack[t]]
  /\ UNCHANGED <<frame, ret>>

\* game['game_state'] = 'finished'; game['result'] = r
Finished(game, r) == [game EXCEPT !.game_state = "finished", !.result = r]

\* BlackjackGame.play: line 92 calls subtract_balance and drops its result;
\* lines 95-132 deal and settle naturals (121 and 127 follow the credits);
\* lines 135-139 register the game and count it; line 141 returns
play(t) ==
  /\ pc[t] \in {"play:92", "play:95", "play:121", "play:127", "play:141"}
  /\ LET user_id == call[t].user
         bet == call[t].amount
         counted(back) == CallFrom(t, "update_stats:102", back,
                                   user_id, 1, "blackjack_played")
     IN CASE pc[t] = "play:92" ->
               /\ CallFrom(t, "subtract_balance:89", "play:95", user_id, bet, "")
               /\ UNCHANGED <<active_games, games, call, ret>>
          [] pc[t] = "play:95" ->
               \E g \in GameIds \ DOMAIN games, deck \in create_deck :
                 LET player_hand == <<deck[52], deck[51]>>
                     dealer_hand == <<deck[50], deck[49]>>
                     player_bj == is_blackjack(player_hand)
                     dealer_bj == is_blackjack(dealer_hand)
                     game_state ==
                       [game_id |-> g, user_id |-> user_id, bet |-> bet,
                        deck |-> SubSeq(deck, 1, 48),
                        player_hand |-> player_hand,
                        dealer_hand |-> dealer_hand,
                        game_state |-> "playing", result |-> "none"]
                 IN /\ call' = [call EXCEPT ![t].game = g]
                    /\ UNCHANGED ret
                    /\ IF player_bj /\ dealer_bj
                         THEN /\ games' = games @@ (g :> game_state)
                              /\ CallFrom(t, "add_balance:80", "play:121",
                                          user_id, bet, "")
                              /\ UNCHANGED active_games
                       ELSE IF player_bj
                         THEN /\ games' = games @@ (g :> game_state)
                              /\ CallFrom(t, "add_balance:80", "play:127",
                                          user_id, IntTimes2_5(bet), "")
                              /\ UNCHANGED active_games
                       ELSE IF dealer_bj
                         THEN /\ games' = games @@
                                   (g :> Finished(game_state, "dealer_blackjack"))
                              /\ counted("play:141")
                              /\ UNCHANGED active_games
                       ELSE /\ games' = games @@ (g :> game_state)
                            /\ active_games' = active_games \cup {g}
                            /\ counted("play:141")
          [] pc[t] = "play:121" ->
               /\ games' = [games EXCEPT ![call[t].game] = Finished(@, "push")]
               /\ counted("play:141")
               /\ UNCHANGED <<active_games, call, ret>>
          [] pc[t] = "play:127" ->
               /\ games' = [games EXCEPT ![call[t].game] =
                              Finished(@, "player_blackjack")]
               /\ counted("play:141")
               /\ UNCHANGED <<active_games, call, ret>>
          [] pc[t] = "play:141" ->
               /\ ReturnTo(t, "game", _format_game_result(games[call[t].game]))
               /\ UNCHANGED <<active_games, games, call>>
  /\ UNCHANGED <<users, global_stats, disk, save_error, lock, now>>
  /\ UNCHANGED user_order
  /\ UNCHANGED limiter

FinishLines == {"_finish_game:204", "_finish_game:210", "_finish_game:216"}

\* BlackjackGame._finish_game, called by hit and stand: lines 204-213
\* update the stats (210 follows the first update of a win), line 216
\* removes the game
_finish_game(t) ==
  /\ pc[t] \in FinishLines
  /\ LET g == call[t].game
         game == games[g]
     IN CASE pc[t] = "_finish_game:204" ->
               IF g \notin active_games
                 THEN /\ ReturnTo(t, "none", 0)
                      /\ UNCHANGED active_games
               ELSE IF game.result \in
                         {"player_blackjack", "player_wins", "dealer_bust"}
                 THEN /\ CallFrom(t, "update_stats:102", "_finish_game:210",
                                  game.user_id, 1, "blackjack_won")
                      /\ UNCHANGED <<active_games, ret>>
               ELSE IF game.result \in
                         {"dealer_blackjack", "dealer_wins", "player_bust"}
                 THEN /\ CallFrom(t, "update_stats:102", "_finish_game:216",
                                  game.user_id, game.bet, "total_losses")
                      /\ UNCHANGED <<active_games, ret>>
               ELSE /\ active_games' = active_games \ {g}
                    /\ ReturnTo(t, "none", 0)
          [] pc[t] = "_finish_game:210" ->
               /\ CallFrom(t, "update_stats:102", "_finish_game:216",
                           game.user_id,
                           IF game.result # "player_blackjack"
                             THEN game.bet ELSE IntTimes1_5(game.bet),
                           "total_winnings")
               /\ UNCHANGED <<active_games, ret>>
          [] pc[t] = "_finish_game:216" ->
               IF g \in active_games
                 THEN /\ active_games' = active_games \ {g}
                      /\ ReturnTo(t, "none", 0)
                 ELSE /\ Raise(t, "KeyError")
                      /\ UNCHANGED active_games
  /\ UNCHANGED games

\* hit as it would be if an unknown id were passed over in silence
hit_silent(t) ==
  /\ call[t].op = "hit"
  /\ pc[t] = "hit:145"
  /\ ReturnTo(t, "none", "")
  /\ UNCHANGED <<users, global_stats, disk, save_error, lock, now,
                 active_games, games, call>>
  /\ UNCHANGED user_order
  /\ UNCHANGED limiter

\* BlackjackGame.hit: lines 145-159 look the game up, draw and test for a
\* bust; line 161 returns after _finish_game
hit(t) ==
  /\ call[t].op = "hit"
  /\ pc[t] \in {"hit:145", "hit:161"} \cup FinishLines
  /\ LET g == call[t].game
     IN CASE pc[t] = "hit:145" ->
               /\ UNCHANGED active_games
               /\ IF g \notin active_games
                    THEN /\ ReturnTo(t, "error", GameNotFound)
                         /\ UNCHANGED games
                    ELSE IF games[g].deck = <<>>
                    THEN /\ Raise(t, "IndexError")
                         /\ UNCHANGED games
                    ELSE LET drawn == [games[g] EXCEPT
                                         !.deck = Front(@),
                                         !.player_hand =
                                            Append(@, Last(games[g].deck))]
                             bust == hand_value(drawn.player_hand) > 21
                         IN IF bust
                              THEN /\ games' = [games EXCEPT ![g] =
                                                  Finished(drawn, "player_bust")]
                                   /\ Enter(t, "_finish_game:204", "hit:161")
                              ELSE /\ games' = [games EXCEPT ![g] = drawn]
                                   /\ ReturnTo(t, "game",
                                               _format_game_result(drawn))
          [] pc[t] = "hit:161" ->
               /\ ReturnTo(t, "game", _format_game_result(games[g]))
               /\ UNCHANGED <<active_games, games>>
          [] pc[t] \in FinishLines -> _finish_game(t)
  /\ UNCHANGED <<users, global_stats, disk, save_error, lock, now, call>>
  /\ UNCHANGED user_order
  /\ UNCHANGED limiter

\* the while loop of stand: <<deck, dealer_hand>> when the dealer stops, or
\* when the deck is empty
RECURSIVE DealerDraws(_, _)
DealerDraws(deck, dealer_hand) ==
  IF should_dealer_hit(dealer_hand) /\ deck # <<>>
    THEN DealerDraws(Front(deck), Append(dealer_hand, Last(deck)))
    ELSE <<deck, dealer_hand>>

\* BlackjackGame.stand: lines 165-195 look the game up, play the dealer and
\* decide (183, 188 and 195 follow the credits); lines 197-198 finish the
\* game; line 200 returns
stand(t) ==
  /\ call[t].op = "stand"
  /\ pc[t] \in {"stand:165", "stand:183", "stand:188", "stand:195", "stand:200"}
               \cup FinishLines
  /\ LET g == call[t].game
         finish(r) ==
           /\ games' = [games EXCEPT ![g] = Finished(@, r)]
           /\ Enter(t, "_finish_game:204", "stand:200")
           /\ UNCHANGED active_games
     IN CASE pc[t] = "stand:165" ->
               /\ UNCHANGED active_games
               /\ IF g \notin active_games
                    THEN /\ ReturnTo(t, "error", GameNotFound)
                         /\ UNCHANGED games
                    ELSE LET d == DealerDraws(games[g].deck, games[g].dealer_hand)
                             game == [games[g] EXCEPT !.deck = d[1],
                                                      !.dealer_hand = d[2]]
                             player_value == hand_value(game.player_hand)
                             dealer_value == hand_value(game.dealer_hand)
                             credit(back, amount) ==
                               /\ games' = [games EXCEPT ![g] = game]
                               /\ CallFrom(t, "add_balance:80", back,
                                           game.user_id, amount, "")
                               /\ UNCHANGED ret
                         IN IF should_dealer_hit(d[2])
                              THEN /\ games' = [games EXCEPT ![g] = game]
                                   /\ Raise(t, "IndexError")
                            ELSE IF dealer_value > 21
                              THEN credit("stand:183", game.bet * 2)
                            ELSE IF player_value > dealer_value
                              THEN credit("stand:188", game.bet * 2)
                            ELSE IF dealer_value > player_value
                              THEN /\ games' = [games EXCEPT ![g] =
                                                  Finished(game, "dealer_wins")]
                                   /\ Enter(t, "_finish_game:204", "stand:200")
                            ELSE credit("stand:195", game.bet)
          [] pc[t] = "stand:183" -> finish("dealer_bust")
          [] pc[t] = "stand:188" -> finish("player_wins")
          [] pc[t] = "stand:195" -> finish("push")
          [] pc[t] = "stand:200" ->
               /\ ReturnTo(t, "game", _format_game_result(games[g]))
               /\ UNCHANGED <<active_games, games>>
          [] pc[t] \in FinishLines -> _finish_game(t)
  /\ UNCHANGED <<users, global_stats, disk, save_error, lock, now, call>>
  /\ UNCHANGED user_order
  /\ UNCHANGED limiter

\* ---------------------------------------------- callers of the Blackjack

Invoke_play(t) ==
  \E u \in UserIds, bet \in Amounts : Invoke(t, "play", "play:92", u, bet, "", 0)

Invoke_hit(t) ==
  \E g \in GameIds : Invoke(t, "hit", "hit:145", 0, 0, "", g)

Invoke_stand(t) ==
  \E g \in GameIds : Invoke(t, "stand", "stand:165", 0, 0, "", g)

\* time passes
TickTo(instants) ==
  /\ \E n \in instants : n > now /\ now' = n
  /\ UNCHANGED <<ledger, limiter>>

Tick == TickTo(Instants)

\* ------------------------------------------------- RateLimiter methods

\* the comparison of line 36 with <= in place of <
Blocked_at_boundary(uc, cd, u, k, time) ==
  /\ u \in DOMAIN uc
  /\ k \in DOMAIN uc[u]
  /\ time - uc[u][k] <= cd[k]

\* lines 31-37: an entry for (user, action) younger than the cooldown
Blocked(uc, cd, u, k, time) ==
  /\ u \in DOMAIN uc
  /\ k \in DOMAIN uc[u]
  /\ time - uc[u][k] < cd[k]

\* line 40 as it would be if it replaced the user's dict
Stamp_alone(uc, u, k, time) ==
  [x \in DOMAIN uc \cup {u} |-> IF x = u THEN (k :> time) ELSE uc[x]]

\* line 40: self.user_cooldowns[user_id_str][action] = current_time (the
\* defaultdict makes the user's dict on first use)
Stamp(uc, u, k, time) ==
  LET mine == IF u \in DOMAIN uc THEN uc[u] ELSE EmptyMap
  IN [x \in DOMAIN uc \cup {u} |->
        IF x = u
          THEN [y \in DOMAIN mine \cup {k} |-> IF y = k THEN time ELSE mine[y]]
          ELSE uc[x]]

\* check_rate_limit as it would be if a refusal restarted the cooldown
check_rate_limit_restart(u, k) ==
  /\ IF k \notin DOMAIN cooldowns
       THEN /\ answer' = [op |-> "check_rate_limit", user |-> u,
                          action |-> k, val |-> TRUE]
            /\ UNCHANGED <<user_cooldowns, last_allowed>>
     ELSE IF Blocked(user_cooldowns, cooldowns, u, k, now)
       THEN /\ answer' = [op |-> "check_rate_limit", user |-> u,
                          action |-> k, val |-> FALSE]
            /\ user_cooldowns' = Stamp(user_cooldowns, u, k, now)
            /\ UNCHANGED last_allowed
     ELSE /\ user_cooldowns' = Stamp(user_cooldowns, u, k, now)
          /\ last_allowed' = Stamp(last_allowed, u, k, now)
          /\ answer' = [op |-> "check_rate_limit", user |-> u,
                        action |-> k, val |-> TRUE]
  /\ UNCHANGED <<cooldowns, now, ledger>>

\* RateLimiter.check_rate_limit(user_id, action); it has no await and no
\* lock, and runs in one piece on the event loop
check_rate_limit(u, k) ==
  /\ IF k \notin DOMAIN cooldowns
       THEN /\ answer' = [op |-> "check_rate_limit", user |-> u,
                          action |-> k, val |-> TRUE]
            /\ UNCHANGED <<user_cooldowns, last_allowed>>
     ELSE IF Blocked(user_cooldowns, cooldowns, u, k, now)
       THEN /\ answer' = [op |-> "check_rate_limit", user |-> u,
                          action |-> k, val |-> FALSE]
            /\ UNCHANGED <<user_cooldowns, last_allowed>>
     ELSE /\ user_cooldowns' = Stamp(user_cooldowns, u, k, now)
          /\ last_allowed' = Stamp(last_allowed, u, k, now)
          /\ answer' = [op |-> "check_rate_limit", user |-> u,
                        action |-> k, val |-> TRUE]
  /\ UNCHANGED <<cooldowns, now, ledger>>

\* RateLimiter.set_custom_cooldown(action, seconds)
set_custom_cooldown(k, seconds) ==
  /\ cooldowns' = [x \in DOMAIN cooldowns \cup {k} |->
                     IF x = k THEN seconds ELSE cooldowns[x]]
  /\ answer' = [op |-> "set_custom_cooldown", user |-> 0, action |-> k,
                val |-> TRUE]
  /\ UNCHANGED <<user_cooldowns, last_allowed, now, ledger>>

\* RateLimiter.cleanup_old_entries(max_age_hours): drops every entry older
\* than max_age_hours * 3600 seconds, then every user left with no entry
cleanup_old_entries(max_age_hours) ==
  /\ LET max_age_seconds == max_age_hours * HourSeconds
         kept(u) == {k \in DOMAIN user_cooldowns[u] :
                       ~(now - user_cooldowns[u][k] > max_age_seconds)}
         remaining == {u \in DOMAIN user_cooldowns : kept(u) # {}}
     IN user_cooldowns' =
          [u \in remaining |-> [k \in kept(u) |-> user_cooldowns[u][k]]]
  /\ answer' = [op |-> "cleanup_old_entries", user |-> 0, action |-> "",
                val |-> TRUE]
  /\ UNCHANGED <<cooldowns, last_allowed, now, ledger>>

\* Callers asking the limiter while time passes
AllowNext ==
  \/ \E u \in UserIds, k \in ActionArgs : check_rate_limit(u, k)
  \/ Tick

\* the limiter keeps nothing on disk: one backing file is enough here
RateInit == Init /\ disk = MissingFile

AllowSpec == RateInit /\ [][AllowNext]_vars

\* The limiter with its sweep and its configuration call
RateNext ==
  \/ \E u \in UserIds, k \in ActionArgs : check_rate_limit(u, k)
  \/ \E h \in MaxAgeArgs : cleanup_old_entries(h)
  \/ \E c \in CustomArgs : set_custom_cooldown(c[1], c[2])
  \/ Tick

RateSpec == RateInit /\ [][RateNext]_vars

\* get_remaining_cooldown without max(0, ...) (a variant for checking)
Remaining_signed(uc, cd, u, k, time) ==
  IF k \in DOMAIN cd /\ u \in DOMAIN uc /\ k \in DOMAIN uc[u]
    THEN cd[k] - (time - uc[u][k])
    ELSE 0

\* what get_remaining_cooldown returns, lines 48-61
Remaining(uc, cd, u, k, time) ==
  IF k \notin DOMAIN cd
    THEN 0
    ELSE IF u \in DOMAIN uc /\ k \in DOMAIN uc[u]
      THEN LET remaining == cd[k] - (time - uc[u][k])
           IN IF remaining > 0 THEN remaining ELSE 0
      ELSE 0

\* RateLimiter.get_remaining_cooldown(user_id, action); reading
\* self.user_cooldowns[user_id_str] at line 54 makes the defaultdict create
\* an empty dict for a user it does not hold
get_remaining_cooldown(u, k) ==
  /\ answer' = [op |-> "get_remaining_cooldown", user |-> u, action |-> k,
                val |-> Remaining(user_cooldowns, cooldowns, u, k, now)]
  /\ user_cooldowns' =
       IF k \in DOMAIN cooldowns /\ u \notin DOMAIN user_cooldowns
         THEN user_cooldowns @@ (u :> EmptyMap)
         ELSE user_cooldowns
  /\ UNCHANGED <<cooldowns, last_allowed, now, ledger>>

\* Callers asking for permission and for the remaining cooldown while time
\* passes
CooldownNext ==
  \/ \E u \in UserIds, k \in ActionArgs : check_rate_limit(u, k)
  \/ \E u \in UserIds, k \in ActionArgs : get_remaining_cooldown(u, k)
  \/ Tick

CooldownSpec == RateInit /\ [][CooldownNext]_vars

\* ---------------------------------------------------------- daily bonus

\* lines 129-133 with > in place of >=
DailyDue_late(last_daily, time) ==
  last_daily = NoTime \/ time - last_daily > DaySeconds

\* Database.can_claim_daily, lines 126-133: no last_daily, or 24 hours
\* since.  (isoformat / fromisoformat give the datetime back unchanged.)
DailyDue(last_daily, time) ==
  last_daily = NoTime \/ time - last_daily >= DaySeconds

\* Database.can_claim_daily: line 124 calls get_user, lines 126-133 decide
\* on the copy it returned and on the clock
can_claim_daily(t) ==
  /\ pc[t] \in {"can_claim_daily:124", "can_claim_daily:126"}
  /\ IF pc[t] = "can_claim_daily:124"
       THEN /\ CallFrom(t, "get_user:43", "can_claim_daily:126",
                        frame[t].user, 0, "")
            /\ UNCHANGED ret
       ELSE ReturnTo(t, "bool", DailyDue(frame[t].user_data.last_daily, now))
  /\ UNCHANGED <<users, global_stats, disk, save_error, lock, now, active_games, games,
                 call>>
  /\ UNCHANGED user_order
  /\ UNCHANGED limiter

\* bot.py daily_command: line 76 asks the limiter for "daily" and answers
\* with the cooldown message when refused; line 84 calls add_balance with
\* bonus_amount; lines 86-87 send the embed
daily_command(t) ==
  /\ pc[t] \in {"daily_command:76", "daily_command:86"}
  /\ LET u == call[t].user
     IN IF pc[t] = "daily_command:76"
          THEN IF Blocked(user_cooldowns, cooldowns, u, "daily", now)
                 THEN /\ answer' = [op |-> "check_rate_limit", user |-> u,
                                    action |-> "daily", val |-> FALSE]
                      /\ ReturnTo(t, "message", "cooldown")
                      /\ UNCHANGED <<user_cooldowns, last_allowed>>
                 ELSE /\ user_cooldowns' = Stamp(user_cooldowns, u, "daily", now)
                      /\ last_allowed' = Stamp(last_allowed, u, "daily", now)
                      /\ answer' = [op |-> "check_rate_limit", user |-> u,
                                    action |-> "daily", val |-> TRUE]
                      /\ CallFrom(t, "add_balance:80", "daily_command:86",
                                  u, DailyBonus, "")
                      /\ UNCHANGED ret
          ELSE /\ ReturnTo(t, "message", "claimed")
               /\ UNCHANGED <<user_cooldowns, last_allowed, answer>>
  /\ UNCHANGED <<users, global_stats, disk, save_error, lock, now, active_games, games,
                 call, cooldowns>>
  /\ UNCHANGED user_order

Invoke_can_claim_daily(t) ==
  \E u \in UserIds :
    Invoke(t, "can_claim_daily", "can_claim_daily:124", u, 0, "", 0)

Invoke_daily_command(t) ==
  \E u \in UserIds :
    Invoke(t, "daily_command", "daily_command:76", u, DailyBonus, "", 0)

\* the files the process may find when users claimed before: user 1 claimed
\* at instant 0 (the file may also be hand-edited)
DailyFiles ==
  {MissingFile,
   FileOf([users |-> (1 :> [NewUser(0) EXCEPT
                             !.last_daily = 0,
                             !.balance = StartingBalance + DailyBonus]),
           order |-> <<1>>,
           global_stats |-> [s \in GlobalStatNames |-> 0]])}

\* the instants around the 24 hours after instant 0
DayInstants == {0, DaySeconds - 1, DaySeconds}

DailyInit == StartFrom(DailyFiles)

\* what a thread does inside a daily-bonus operation
DailyStep(t) ==
  \/ Lock_acquire(t)
  \/ get_user(t)
  \/ add_balance(t)
  \/ claim_daily(t)
  \/ can_claim_daily(t)
  \/ daily_command(t)

\* Callers of the daily bonus while time passes
DailyNext ==
  \/ \E t \in Threads :
       \/ Invoke_claim_daily(t)
       \/ Invoke_can_claim_daily(t)
       \/ Invoke_daily_command(t)
       \/ DailyStep(t)
  \/ TickTo(DayInstants)

DailySpec == DailyInit /\ [][DailyNext]_vars

\* ------------------------------------------------------------- commands

\* `if not bot.rate_limiter.check_rate_limit(user.id, k): ... return`, the
\* refusal: the cooldown message is sent and the handler returns.
\* call[t].gate keeps what the limiter told this handler.
Refused(t, u, k) ==
  /\ answer' = [op |-> "check_rate_limit", user |-> u, action |-> k,
                val |-> FALSE]
  /\ call' = [call EXCEPT ![t].gate = "denied"]
  /\ ReturnTo(t, "message", "cooldown")
  /\ UNCHANGED <<user_cooldowns, last_allowed>>

\* the same check answering True: the action is stamped
Admitted(t, u, k) ==
  /\ user_cooldowns' = Stamp(user_cooldowns, u, k, now)
  /\ last_allowed' = Stamp(last_allowed, u, k, now)
  /\ answer' = [op |-> "check_rate_limit", user |-> u, action |-> k,
                val |-> TRUE]
  /\ call' = [call EXCEPT ![t].gate = "allowed"]

\* bot.py balance_command: line 64 asks the limiter for "balance", line 70
\* calls get_user, lines 71-72 send the balance
balance_command(t) ==
  /\ pc[t] \in {"balance_command:64", "balance_command:71"}
  /\ LET u == call[t].user
     IN IF pc[t] = "balance_command:64"
          THEN IF Blocked(user_cooldowns, cooldowns, u, "balance", now)
                 THEN Refused(t, u, "balance")
                 ELSE /\ Admitted(t, u, "balance")
                      /\ CallFrom(t, "get_user:43", "balance_command:71",
                                  u, 0, "")
                      /\ UNCHANGED ret
          ELSE /\ ReturnTo(t, "embed", frame[t].user_data.balance)
               /\ UNCHANGED <<user_cooldowns, last_allowed, answer, call>>
  /\ UNCHANGED <<users, user_order, global_stats, disk, save_error, lock, now,
                 active_games, games, cooldowns>>

\* bot.py stats_command: line 213 calls get_user, lines 214-215 send the
\* statistics
stats_command(t) ==
  /\ pc[t] \in {"stats_command:213", "stats_command:214"}
  /\ IF pc[t] = "stats_command:213"
       THEN /\ CallFrom(t, "get_user:43", "stats_command:214",
                          call[t].user, 0, "")
            /\ UNCHANGED ret
       ELSE ReturnTo(t, "embed", frame[t].user_data.stats)
  /\ UNCHANGED <<users, user_order, global_stats, disk, save_error, lock, now,
                 active_games, games, call>>
  /\ UNCHANGED limiter

\* bot.py blackjack_command: line 162 asks the limiter for "game", lines
\* 168-178 bound the bet, line 180 calls get_user, lines 181-186 refuse a
\* bet above the balance, line 188 calls play, lines 189-195 send the game
blackjack_command(t) ==
  /\ pc[t] \in {"blackjack_command:162", "blackjack_command:181",
                "blackjack_command:189"}
  /\ LET u == call[t].user
         bet == call[t].amount
     IN CASE pc[t] = "blackjack_command:162" ->
               IF Blocked(user_cooldowns, cooldowns, u, "game", now)
                 THEN Refused(t, u, "game")
                 ELSE /\ Admitted(t, u, "game")
                      /\ IF bet < 10
                           THEN ReturnTo(t, "message", "minimum bet")
                         ELSE IF bet > 10000
                           THEN ReturnTo(t, "message", "maximum bet")
                         ELSE /\ CallFrom(t, "get_user:43",
                                          "blackjack_command:181", u, bet, "")
                              /\ UNCHANGED ret
          [] pc[t] = "blackjack_command:181" ->
               /\ IF frame[t].user_data.balance < bet
                    THEN ReturnTo(t, "message", "insufficient balance")
                    ELSE Enter(t, "play:92", "blackjack_command:189")
               /\ UNCHANGED <<user_cooldowns, last_allowed, answer, call>>
          [] pc[t] = "blackjack_command:189" ->
               /\ ReturnTo(t, "embed", call[t].game)
               /\ UNCHANGED <<user_cooldowns, last_allowed, answer, call>>
  /\ UNCHANGED <<users, user_order, global_stats, disk, save_error, lock, now,
                 active_games, games, cooldowns>>

\* the bets users give to /blackjack: below the minimum, the minimum, above
\* the maximum
BetArgs == {5, 10, StartingBalance + 1}

Invoke_balance_command(t) ==
  \E u \in UserIds :
    Invoke(t, "balance_command", "balance_command:64", u, 0, "", 0)

Invoke_stats_command(t) ==
  \E u \in UserIds :
    Invoke(t, "stats_command", "stats_command:213", u, 0, "", 0)

Invoke_blackjack_command(t) ==
  \E u \in UserIds, bet \in BetArgs :
    Invoke(t, "blackjack_command", "blackjack_command:162", u, bet, "", 0)

\* what a thread does inside a command
CommandStep(t) ==
  \/ balance_command(t)
  \/ stats_command(t)
  \/ blackjack_command(t)
  \/ Lock_acquire(t)
  \/ get_user(t)
  \/ subtract_balance(t)
  \/ play(t)

\* Users sending /balance, /stats and /blackjack within one instant
CommandNext ==
  \E t \in Threads :
    \/ Invoke_balance_command(t)
    \/ Invoke_stats_command(t)
    \/ Invoke_blackjack_command(t)
    \/ CommandStep(t)

CommandSpec == RateInit /\ [][CommandNext]_vars

\* ----------------------------------------------------------- leaderboard

\* the default of get_leaderboard's limit is 10; get_user_rank passes 1000
RankLimit == 1000

\* the loop of get_leaderboard, lines 146-153: one row per account, in the
\* order of the dict
Rows(us, ord) ==
  [i \in 1..Len(ord) |->
     [user_id |-> ord[i], balance |-> us[ord[i]].balance,
      total_bet |-> us[ord[i]].total_bet, total_won |-> us[ord[i]].total_won,
      games_played |-> us[ord[i]].games_played]]

Reverse(seq) == [i \in 1..Len(seq) |-> seq[Len(seq) + 1 - i]]

\* the rows whose balance is in keys, greatest balance first, rows of equal
\* balance in the order they have in rows
RECURSIVE Descending(_, _)
Descending(rows, keys) ==
  IF keys = {}
    THEN <<>>
    ELSE LET top == CHOOSE k \in keys : \A other \in keys : other <= k
         IN SelectSeq(rows, LAMBDA r : r.balance = top)
              \o Descending(rows, keys \ {top})

\* sorting ascending and reversing the result (a variant for checking)
SortByBalance_reversed(rows) ==
  Descending(Reverse(rows), {rows[i].balance : i \in 1..Len(rows)})

\* users.sort(key=lambda x: x['balance'], reverse=True), line 156: list.sort
\* is stable, with reverse=True too
SortByBalance(rows) ==
  Descending(rows, {rows[i].balance : i \in 1..Len(rows)})

\* seq[:limit]
Slice(seq, limit) ==
  LET n == Len(seq)
      stop == IF limit >= 0
                THEN (IF limit <= n THEN limit ELSE n)
                ELSE (IF n + limit >= 0 THEN n + limit ELSE 0)
  IN SubSeq(seq, 1, stop)

\* what get_leaderboard(limit) returns on the store (us, ord)
Leaderboard(us, ord, limit) == Slice(SortByBalance(Rows(us, ord)), limit)

\* what get_user_rank(u) returns on the store (us, ord), lines 162-168
RankOf(us, ord, u) ==
  LET leaderboard == Leaderboard(us, ord, RankLimit)
      found == {i \in 1..Len(leaderboard) : leaderboard[i].user_id = u}
  IN IF found # {}
       THEN CHOOSE i \in found : \A j \in found : i <= j
       ELSE Len(leaderboard) + 1

\* Database.get_leaderboard, lines 144-158 (it takes no lock)
get_leaderboard(t) ==
  /\ pc[t] = "get_leaderboard:144"
  /\ ReturnTo(t, "list", Leaderboard(users, user_order, frame[t].amount))
  /\ UNCHANGED <<users, user_order, global_stats, disk, save_error, lock, now,
                 active_games, games, call>>
  /\ UNCHANGED limiter

\* Database.get_user_rank, lines 162-168 (it takes no lock)
get_user_rank(t) ==
  /\ pc[t] = "get_user_rank:162"
  /\ ReturnTo(t, "int", RankOf(users, user_order, frame[t].user))
  /\ UNCHANGED <<users, user_order, global_stats, disk, save_error, lock, now,
                 active_games, games, call>>
  /\ UNCHANGED limiter

\* the limits callers pass to get_leaderboard
LimitArgs == {0, 1, 2, 10}

\* the accounts of the small stores the leaderboard is read on
BoardUsers == 1..(NumUsers + 1)

\* the users callers ask the rank of: the first, the last and one absent
\* from the small stores, and the last ones of the large stores
RankArgs == {1, NumUsers + 1, RankLimit, RankLimit + 2}

Invoke_get_leaderboard(t) ==
  \E limit \in LimitArgs :
    Invoke(t, "get_leaderboard", "get_leaderboard:144", 0, limit, "", 0)

Invoke_get_user_rank(t) ==
  \E u \in RankArgs :
    Invoke(t, "get_user_rank", "get_user_rank:162", u, 0, "", 0)

\* the balances the accounts of the small stores hold
BoardBalances == {StartingBalance, StartingBalance + 10}

\* the orders a dict may hold the keys S in
Orders(S) ==
  {o \in [1..Cardinality(S) -> S] :
     \A i, j \in 1..Cardinality(S) : o[i] = o[j] => i = j}

\* the file holding the accounts of DOMAIN b, with balances b, in order o
BoardFile(b, o) ==
  FileOf([users |-> [u \in DOMAIN b |-> [NewUser(0) EXCEPT !.balance = b[u]]],
          order |-> o,
          global_stats |-> [s \in GlobalStatNames |-> 0]])

\* the file after users 1..n were each referenced once
Crowd(n) ==
  BoardFile([u \in 1..n |-> StartingBalance], [i \in 1..n |-> i])

\* the files the leaderboard is read from: every small store, and large
\* stores around get_user_rank's limit
LeaderFiles ==
  UNION {UNION {{BoardFile(b, o) : o \in Orders(S)} :
                  b \in [S -> BoardBalances]} :
           S \in SUBSET BoardUsers}
    \cup {Crowd(RankLimit), Crowd(RankLimit + 2)}

LeaderInit == StartFrom(LeaderFiles)

\* Callers reading the leaderboard and ranks of a store
LeaderNext ==
  \E t \in Threads :
    \/ Invoke_get_leaderboard(t)
    \/ get_leaderboard(t)
    \/ Invoke_get_user_rank(t)
    \/ get_user_rank(t)

LeaderSpec == LeaderInit /\ [][LeaderNext]_vars

\* ------------------------------------------------------ the public state

\* the values game['result'] takes (lines 122, 128, 132, 158, 183-195)
Results ==
  {"push", "player_blackjack", "dealer_blackjack", "player_bust",
   "dealer_bust", "player_wins", "dealer_wins"}

Card(rank, suit) == [rank |-> rank, suit |-> suit]

\* hands of the player and of the dealer: two naturals, 17, 19, 20 after a
\* third card, and a bust
FormatHands ==
  {<<Card("A", "spades"), Card("K", "spades")>>,
   <<Card("Q", "hearts"), Card("A", "hearts")>>,
   <<Card("10", "clubs"), Card("7", "diamonds")>>,
   <<Card("9", "clubs"), Card("10", "hearts")>>,
   <<Card("5", "spades"), Card("6", "hearts"), Card("9", "diamonds")>>,
   <<Card("10", "diamonds"), Card("6", "clubs"), Card("8", "spades")>>}

\* the stakes of the games formatted: an even and an odd one
FormatBets == {10, 15}

\* game is a game_state dict as play, hit and stand leave it: playing with
\* no result and a player who has not bust, or finished with the result
\* the hands give
Settled(game) ==
  LET pv == hand_value(game.player_hand)
      dv == hand_value(game.dealer_hand)
      pbj == is_blackjack(game.player_hand)
      dbj == is_blackjack(game.dealer_hand)
      r == game.result
  IN IF game.game_state = "playing"
       THEN /\ r = "none" /\ pv <= 21 /\ ~pbj /\ ~dbj
            /\ Len(game.dealer_hand) = 2
       ELSE /\ r \in Results
            /\ r = "player_blackjack" => pbj /\ ~dbj
            /\ r = "dealer_blackjack" => dbj /\ ~pbj
            /\ r = "player_bust" => pv > 21
            /\ r = "dealer_bust" => dv > 21 /\ pv <= 21
            /\ r = "player_wins" => pv <= 21 /\ dv <= 21 /\ pv > dv /\ dv >= 17
            /\ r = "dealer_wins" => pv <= 21 /\ dv <= 21 /\ dv > pv
            /\ r = "push" => pv = dv /\ dv >= 17

\* the game_state dicts _format_game_result is applied to
GameRecords ==
  {game \in [game_id : GameIds, user_id : {1}, bet : FormatBets,
             deck : {<<>>}, player_hand : FormatHands,
             dealer_hand : FormatHands,
             game_state : {"playing", "finished"},
             result : Results \cup {"none"}] : Settled(game)}

\* A session engine holding one game (registered while it is playing)
FormatInit ==
  /\ \E game \in GameRecords :
       /\ games = (game.game_id :> game)
       /\ active_games = IF game.game_state = "playing"
                           THEN {game.game_id} ELSE {}
  /\ disk = MissingFile
  /\ users = (1 :> NewUser(0))
  /\ user_order = <<1>>
  /\ global_stats = DefaultData.global_stats
  /\ save_error = FALSE
  /\ lock = NoThread
  /\ now = 0
  /\ pc = [t \in Threads |-> "idle"]
  /\ stack = [t \in Threads |-> <<>>]
  /\ call = [t \in Threads |-> NoCall]
  /\ frame = [t \in Threads |-> NoFrame]
  /\ ret = [t \in Threads |-> NoRet]
  /\ user_cooldowns = EmptyMap
  /\ cooldowns = CooldownTable
  /\ last_allowed = EmptyMap
  /\ answer = NoAnswer

\* play, hit and stand reach their last line, return
\* self._format_game_result(game), with game g
Invoke_format_game_result(t) ==
  \E g \in DOMAIN games :
    Invoke(t, "_format_game_result", "_format_game_result:220",
           games[g].user_id, games[g].bet, "", g)

\* BlackjackGame._format_game_result, lines 220-257, applied and returned
format_game_result(t) ==
  /\ pc[t] = "_format_game_result:220"
  /\ ReturnTo(t, "game", _format_game_result(games[call[t].game]))
  /\ UNCHANGED <<users, user_order, global_stats, disk, save_error, lock, now,
                 active_games, games, call>>
  /\ UNCHANGED limiter

\* Callers formatting the game for display
FormatNext ==
  \E t \in Threads :
    \/ Invoke_format_game_result(t)
    \/ format_game_result(t)

FormatSpec == FormatInit /\ [][FormatNext]_vars

\* ------------------------------------------------------------ hand rules

\* the longest hand evaluated
MaxHand == 4

\* the ranks of the hands evaluated
HandRanks == {"A", "2", "5", "6", "7", "8", "9", "10", "Q", "K"}

\* the suit of the i-th card of a hand evaluated (the rules ignore suits)
SuitAt == <<"spades", "hearts", "diamonds", "clubs">>

\* the hands evaluated: 2 to MaxHand cards, suits in rotation
RuleHands ==
  UNION {{[i \in 1..n |-> Card(ranks[i], SuitAt[((i - 1) % 4) + 1])] :
            ranks \in [1..n -> HandRanks]} : n \in 2..MaxHand}

\* A session engine holding one game whose dealer hand is any of the hands
\* evaluated (stand, lines 171-177, applies both rules to the dealer hand)
HandInit ==
  /\ \E hand \in RuleHands :
       games = (1 :> [game_id |-> 1, user_id |-> 1, bet |-> 10, deck |-> <<>>,
                      player_hand |-> <<Card("10", "clubs"),
                                        Card("7", "diamonds")>>,
                      dealer_hand |-> hand,
                      game_state |-> "playing", result |-> "none"])
  /\ active_games = {1}
  /\ disk = MissingFile
  /\ users = (1 :> NewUser(0))
  /\ user_order = <<1>>
  /\ global_stats = DefaultData.global_stats
  /\ save_error = FALSE
  /\ lock = NoThread
  /\ now = 0
  /\ pc = [t \in Threads |-> "idle"]
  /\ stack = [t \in Threads |-> <<>>]
  /\ call = [t \in Threads |-> NoCall]
  /\ frame = [t \in Threads |-> NoFrame]
  /\ ret = [t \in Threads |-> NoRet]
  /\ user_cooldowns = EmptyMap
  /\ cooldowns = CooldownTable
  /\ last_allowed = EmptyMap
  /\ answer = NoAnswer

Invoke_should_dealer_hit(t) ==
  \E g \in DOMAIN games :
    Invoke(t, "should_dealer_hit", "should_dealer_hit:69", 0, 0, "", g)

Invoke_hand_value(t) ==
  \E g \in DOMAIN games :
    Invoke(t, "hand_value", "hand_value:36", 0, 0, "", g)

\* BlackjackGame.should_dealer_hit, lines 69-87, applied to the dealer hand
apply_should_dealer_hit(t) ==
  /\ pc[t] = "should_dealer_hit:69"
  /\ ReturnTo(t, "bool", should_dealer_hit(games[call[t].game].dealer_hand))
  /\ UNCHANGED <<users, user_order, global_stats, disk, save_error, lock, now,
                 active_games, games, call>>
  /\ UNCHANGED limiter

\* BlackjackGame.hand_value, lines 36-51, applied to the dealer hand
apply_hand_value(t) ==
  /\ pc[t] = "hand_value:36"
  /\ ReturnTo(t, "int", hand_value(games[call[t].game].dealer_hand))
  /\ UNCHANGED <<users, user_order, global_stats, disk, save_error, lock, now,
                 active_games, games, call>>
  /\ UNCHANGED limiter

\* Callers applying the two rules to the hand
HandNext ==
  \E t \in Threads :
    \/ Invoke_should_dealer_hit(t)
    \/ apply_should_dealer_hit(t)
    \/ Invoke_hand_value(t)
    \/ apply_hand_value(t)

HandSpec == HandInit /\ [][HandNext]_vars

\* ----------------------------------------------------------- persistence

\* the store Database.__init__ builds from the file
Loaded == _load_data(disk)

\* The process is killed and started again: CasinoBot.__init__ builds a new
\* Database from the file, a new RateLimiter and a new BlackjackGame.  Every
\* call in progress is gone with the old process.
Restart ==
  /\ users' = Loaded.users
  /\ user_order' = Loaded.order
  /\ global_stats' = Loaded.global_stats
  /\ save_error' = FALSE
  /\ lock' = NoThread
  /\ active_games' = {}
  /\ games' = EmptyMap
  /\ pc' = [t \in Threads |-> "idle"]
  /\ stack' = [t \in Threads |-> <<>>]
  /\ call' = [t \in Threads |-> NoCall]
  /\ frame' = [t \in Threads |-> NoFrame]
  /\ ret' = [t \in Threads |-> NoRet]
  /\ user_cooldowns' = EmptyMap
  /\ cooldowns' = CooldownTable
  /\ answer' = NoAnswer
  /\ UNCHANGED <<disk, now, last_allowed>>

\* what a thread does inside an operation that completes
PersistStep(t) ==
  \/ Lock_acquire(t)
  \/ get_user(t)
  \/ update_global_stats(t)
  \/ reset_user_data(t)

\* Callers of the ledger operations that return, while time passes and the
\* process restarts
PersistNext ==
  \/ \E t \in Threads :
       \/ Invoke_get_user(t)
       \/ Invoke_update_global_stats(t)
       \/ Invoke_reset_user_data(t)
       \/ PersistStep(t)
  \/ TickTo({0, MaxNow})
  \/ Restart

PersistSpec == Init /\ [][PersistNext]_vars

\* -------------------------------------------------------------- accounts

\* what a thread does inside get_user and reset_user_data
AccountStep(t) ==
  \/ Lock_acquire(t)
  \/ get_user(t)
  \/ reset_user_data(t)

\* Callers referencing and resetting accounts while time passes, on a store
\* that is empty or holds an account that was credited before
AccountNext ==
  \/ \E t \in Threads :
       \/ Invoke_get_user(t)
       \/ Invoke_reset_user_data(t)
       \/ AccountStep(t)
  \/ TickTo({0, MaxNow})

AccountSpec == DailyInit /\ [][AccountNext]_vars

\* what a thread does inside the operation it was asked for
Step(t) ==
  \/ Lock_acquire(t)
  \/ get_user(t)
  \/ add_balance(t)
  \/ subtract_balance(t)
  \/ update_stats(t)
  \/ claim_daily(t)
  \/ reset_user_data(t)
  \/ play(t)
  \/ hit(t)
  \/ stand(t)

\* Concurrent callers of the Ledger and of the session engine
Next ==
  \E t \in Threads :
    \/ Invoke_get_user(t)
    \/ Invoke_add_balance(t)
    \/ Invoke_subtract_balance(t)
    \/ Invoke_update_stats(t)
    \/ Invoke_claim_daily(t)
    \/ Invoke_reset_user_data(t)
    \/ Invoke_play(t)
    \/ Invoke_hit(t)
    \/ Invoke_stand(t)
    \/ Step(t)

Spec == Init /\ [][Next]_vars

\* every thread that is called keeps being scheduled
FairSpec == Spec /\ \A t \in Threads : WF_vars(Step(t))

\* --------------------------------------------------------------- claims

\* thread t is at a `with self._lock:` line
Waiting(t) == pc[t] \in DOMAIN LockLines

\* thread t waits for the lock while its own call chain holds it
SelfLocked(t) == Waiting(t) /\ lock = t

\* thread t waits for a lock that is never released
Stuck(t) == Waiting(t) /\ lock \in Threads /\ SelfLocked(lock)

\* thread t is inside an operation
Running(t) == pc[t] \notin {"idle", "done"}

\* C1: every admitted Start (play), Hit and Stand call runs to completion:
\* it eventually returns a result to its caller.
C1_CallsComplete ==
  \A t \in Threads :
    (call[t].op \in {"play", "hit", "stand"} /\ Running(t)) ~> (pc[t] = "done")

\* thread t takes the step
StepOf(t) == pc'[t] # pc[t]

\* the balance and the stats a reference to user u finds in the store us
BalanceIn(us, u) == IF u \in DOMAIN us THEN us[u].balance ELSE StartingBalance

StatsIn(us, u) == IF u \in DOMAIN us THEN us[u].stats ELSE NewStats

Min(a, b) == IF a <= b THEN a ELSE b

\* C2: no balance is ever negative, and a Debit (subtract_balance) with
\* amount > balance returns False to its caller and leaves the store as it
\* was.
C2_DebitRejectsOverdraft ==
  [][ /\ \A u \in DOMAIN users' : users'[u].balance >= 0
      /\ \A t \in Threads :
           (call'[t].op = "subtract_balance"
              /\ call'[t].amount > BalanceIn(users', call'[t].user))
           => /\ ~Stuck(t)'
              /\ (pc[t] = "subtract_balance:91" /\ pc'[t] = "done")
                 => (ret'[t].val = FALSE /\ users' = users) ]_vars

\* C3: N concurrent Debits of `amount` against a balance B succeed exactly
\* min(N, B div amount) times: once every one of them has returned or can
\* no longer move, that many have returned True.
C3_ConcurrentDebitsCount ==
  \A u \in UserIds, a \in Amounts :
    LET D == {t \in Threads : /\ call[t].op = "subtract_balance"
                              /\ call[t].user = u /\ call[t].amount = a}
        won == {t \in D : pc[t] = "done" /\ ret[t].tag = "bool" /\ ret[t].val}
    IN (D # {} /\ \A t \in D : pc[t] = "done" \/ Stuck(t))
       => \A t \in D :
            Cardinality(won) = Min(Cardinality(D), call[t].bal0 \div a)

\* C4: a Start (play) whose stake exceeds the balance is reported to its
\* caller; it registers no session and leaves balance and stats as they
\* were.
C4_StartInsufficientFunds ==
  [][ \A t \in Threads :
        (call'[t].op = "play" /\ call'[t].amount > BalanceIn(users', call'[t].user))
        => /\ ~Stuck(t)'
           /\ (call[t].op = "play" /\ StepOf(t))
              => /\ active_games' = active_games
                 /\ BalanceIn(users', call[t].user) = BalanceOf(call[t].user)
                 /\ StatsIn(users', call[t].user) = StatsIn(users, call[t].user) ]_vars

\* C5: a Debit with amount <= balance returns True with the balance
\* decreased by amount and total_bet increased by amount; no stats counter
\* of the account and no other account changes.
C5_DebitEffect ==
  [][ \A t \in Threads :
        (call'[t].op = "subtract_balance"
           /\ call'[t].amount <= BalanceIn(users', call'[t].user))
        => /\ ~Stuck(t)'
           /\ (pc[t] = "subtract_balance:91" /\ pc'[t] = "done")
              => LET u == call[t].user
                     a == call[t].amount
                 IN /\ ret'[t].val = TRUE
                    /\ users'[u].balance = users[u].balance - a
                    /\ users'[u].total_bet = users[u].total_bet + a
                    /\ users'[u].stats = users[u].stats
                    /\ DOMAIN users' = DOMAIN users
                    /\ \A v \in DOMAIN users \ {u} : users'[v] = users[v] ]_vars

\* C6: every session in the active table is Playing with no result; a
\* Start that deals no natural registers its session as Playing.
C6_ActiveSessionsArePlaying ==
  [][ /\ \A g \in active_games' :
           games'[g].game_state = "playing" /\ games'[g].result = "none"
      /\ \A t \in Threads :
           call'[t].op = "play"
           => /\ ~Stuck(t)'
              /\ (pc[t] = "play:95" /\ StepOf(t)
                    /\ ~is_blackjack(games'[call'[t].game].player_hand)
                    /\ ~is_blackjack(games'[call'[t].game].dealer_hand))
                 => call'[t].game \in active_games' ]_vars

\* C7: Hit or Stand addressed to a session id that is not in the active
\* table returns the session-not-found error and changes no session, no
\* balance and no stat.
C7_UnknownSessionRejected ==
  [][ \A t \in Threads :
        (pc[t] \in {"hit:145", "stand:165"} /\ StepOf(t)
           /\ call[t].game \notin active_games)
        => /\ pc'[t] = "done"
           /\ ret'[t] = [tag |-> "error", val |-> GameNotFound]
           /\ UNCHANGED <<users, global_stats, disk, active_games, games>> ]_vars

\* a Hit and a Stand on an unknown id have both returned the error
C7_Witness ==
  \E t1, t2 \in Threads :
    /\ call[t1].op = "hit" /\ pc[t1] = "done" /\ ret[t1].tag = "error"
    /\ call[t2].op = "stand" /\ pc[t2] = "done" /\ ret[t2].tag = "error"
    /\ call[t1].game \notin active_games

\* C9: when play has returned, a push of two naturals has credited the
\* stake back (net zero), a player natural alone has credited 2.5 x stake
\* (net +1.5 x stake), a dealer natural alone has credited nothing; the
\* round is Finished and not in the active table.  (The net is read off the
\* balance, so for a user no other call is working on.)
C9_NaturalsSettleAtStart ==
  [][ \A t \in Threads :
        call'[t].op = "play"
        => /\ ~Stuck(t)'
           /\ (pc[t] = "play:141" /\ pc'[t] = "done"
                 /\ \A o \in Threads \ {t} :
                      ~(Running(o) /\ call[o].user = call[t].user))
              => LET r == ret'[t].val
                     bet == call[t].amount
                     net == BalanceIn(users', call[t].user) - call[t].bal0
                     g == games[call[t].game]
                     player_bj == is_blackjack(g.player_hand)
                     dealer_bj == is_blackjack(g.dealer_hand)
                 IN /\ (player_bj /\ dealer_bj) => net = 0
                    /\ (player_bj /\ ~dealer_bj) => 2 * net = 3 * bet
                    /\ (~player_bj /\ dealer_bj) => net = 0 - bet
                    /\ (player_bj \/ dealer_bj)
                       => /\ r.game_state = "finished"
                          /\ call[t].game \notin active_games' ]_vars

\* ---- the rate limiter

\* the step is a call of check_rate_limit (answer' says for whom)
CheckStep ==
  /\ answer'.op = "check_rate_limit"
  /\ <<answer, user_cooldowns>>' # <<answer, user_cooldowns>>

\* the recorded time of (u, k) in uc, NoTime when there is none
Entry(uc, u, k) ==
  IF u \in DOMAIN uc /\ k \in DOMAIN uc[u] THEN uc[u][k] ELSE NoTime

\* C16: check_rate_limit for a configured action returns True and records
\* the current time exactly when no time is recorded for (user, action) or
\* now - last >= cooldown (True at exactly the boundary); otherwise it
\* returns False.
C16_AllowDecision ==
  [][ (CheckStep /\ answer'.action \in DOMAIN cooldowns)
      => LET u == answer'.user
             k == answer'.action
             last == Entry(user_cooldowns, u, k)
             free == last = NoTime \/ now - last >= cooldowns[k]
         IN /\ answer'.val = free
            /\ free => Entry(user_cooldowns', u, k) = now ]_vars

\* the daily action, allowed at time 0, has just been refused one second
\* before the end of its cooldown
C16_Witness ==
  \E u \in UserIds :
    /\ answer = [op |-> "check_rate_limit", user |-> u, action |-> "daily",
                 val |-> FALSE]
    /\ now = DaySeconds - 1
    /\ Entry(user_cooldowns, u, "daily") = 0

\* C17: a refused check_rate_limit leaves the limiter as it was; after a
\* call allowed at time t, every call before t + cooldown is refused and a
\* call at or after t + cooldown is allowed, whatever was refused between
\* (in runs of check_rate_limit calls; what the sweep does to it is C19).
C17_DenialKeepsClock ==
  [][ CheckStep
      => LET u == answer'.user
             k == answer'.action
             t == Entry(last_allowed, u, k)
         IN /\ ~answer'.val => UNCHANGED <<user_cooldowns, cooldowns>>
            /\ (k \in DOMAIN cooldowns /\ t # NoTime)
               => (answer'.val <=> now >= t + cooldowns[k]) ]_vars

\* a call inside the cooldown has just been refused
C17_Witness ==
  \E u \in UserIds :
    /\ answer = [op |-> "check_rate_limit", user |-> u, action |-> "game",
                 val |-> FALSE]
    /\ now = 2
    /\ Entry(user_cooldowns, u, "game") = 0

\* C18: check_rate_limit(u, k) changes no entry but that of (u, k) and no
\* cooldown; an action with no configured cooldown is always allowed and
\* records nothing.
C18_AllowFrame ==
  [][ CheckStep
      => LET u == answer'.user
             k == answer'.action
         IN /\ \A u2 \in UserIds, k2 \in ActionArgs \cup DOMAIN cooldowns :
                 <<u2, k2>> # <<u, k>>
                 => Entry(user_cooldowns', u2, k2) = Entry(user_cooldowns, u2, k2)
            /\ cooldowns' = cooldowns
            /\ k \notin DOMAIN cooldowns
               => answer'.val /\ user_cooldowns' = user_cooldowns ]_vars

\* an unconfigured action was allowed for a user who has other entries,
\* while another user is inside a cooldown
C18_Witness ==
  /\ answer = [op |-> "check_rate_limit", user |-> 1, action |-> "help",
               val |-> TRUE]
  /\ Entry(user_cooldowns, 1, "game") = 1
  /\ Entry(user_cooldowns, 1, "daily") = 0
  /\ Entry(user_cooldowns, 1, "help") = NoTime
  /\ Entry(user_cooldowns, 2, "game") = 2
  /\ now = 2

\* C19: the sweep never turns a refusal into an acceptance: a call of
\* check_rate_limit is allowed only if the action was never allowed to the
\* user before or its cooldown has elapsed since it last was.
C19_SweepKeepsDenials ==
  [][ (CheckStep /\ answer'.val /\ answer'.action \in DOMAIN cooldowns)
      => LET t == Entry(last_allowed, answer'.user, answer'.action)
         IN t = NoTime \/ now - t >= cooldowns[answer'.action] ]_vars

\* ---- stats of finished rounds

\* C12: a round that ends Finished has updated its owner's cumulative stats
\* exactly once when the call that ended it returns: a win has added the net
\* gain to total_winnings, a loss the stake to total_losses, a push neither.
\* (Read off the stats, so for an owner no other call is working on.)
C12_FinishedRoundCounted ==
  [][ \A t \in Threads :
        call'[t].op \in {"play", "hit", "stand"}
        => /\ ~Stuck(t)'
           /\ (pc[t] # "done" /\ pc'[t] = "done" /\ ret'[t].tag = "game"
                 /\ ret'[t].val.game_state = "finished"
                 /\ \A o \in Threads \ {t} : ~Running(o))
              => LET g == games'[call[t].game]
                     s0 == call[t].stats0
                     s1 == StatsIn(users', g.user_id)
                     won == s1.total_winnings - s0.total_winnings
                     lost == s1.total_losses - s0.total_losses
                 IN CASE g.result = "player_blackjack" ->
                           2 * won = 3 * g.bet /\ lost = 0
                      [] g.result \in {"player_wins", "dealer_bust"} ->
                           won = g.bet /\ lost = 0
                      [] g.result \in {"dealer_blackjack", "dealer_wins",
                                       "player_bust"} ->
                           won = 0 /\ lost = g.bet
                      [] OTHER -> won = 0 /\ lost = 0 ]_vars

\* ---- the daily bonus

\* C13: a daily claim (claim_daily, or the daily command) made less than 24
\* hours after the user's last one fails and leaves balance and last_daily
\* as they were; one made when none was made or 24 hours have passed
\* succeeds, crediting the bonus once.
C13_DailyOncePerDay ==
  [][ \A t \in Threads :
        call'[t].op \in {"claim_daily", "daily_command"}
        => /\ ~Stuck(t)'
           /\ (call[t].op = call'[t].op /\ pc[t] # "done" /\ pc'[t] = "done")
              => LET u == call[t].user
                 IN IF DailyDue(call[t].last0, now)
                      THEN /\ ret'[t].tag # "raise"
                           /\ BalanceIn(users', u) = call[t].bal0 + DailyBonus
                      ELSE /\ BalanceIn(users', u) = call[t].bal0
                           /\ users'[u].last_daily = call[t].last0 ]_vars

\* C14: the stamp of last_daily and the credit of a daily claim are one
\* unit: no state shows claim_daily's stamp without its credit, nor the
\* daily command's credit without a stamp.  (get_leaderboard and
\* backup_data read the store without the lock, so every state can be
\* seen.)
C14_DailyClaimAtomic ==
  \A t \in Threads :
    /\ (call[t].op = "claim_daily" /\ Running(t)
          /\ pc[t] \notin {"claim_daily:137", "claim_daily:138"})
       => BalanceOf(call[t].user) = call[t].bal0 + call[t].amount
    /\ (call[t].op = "daily_command" /\ pc[t] = "daily_command:86")
       => users[call[t].user].last_daily # call[t].last0

\* C15: can_claim_daily returns True exactly when the account's last_daily
\* is unset or now - last_daily >= 24 hours, and False otherwise (for an
\* account not stamped since the call read it).
C15_CanClaimDaily ==
  [][ \A t \in Threads :
        (pc[t] = "can_claim_daily:126" /\ pc'[t] = "done")
        => LET u == call[t].user
               last == users[u].last_daily
           IN frame[t].user_data.last_daily = last
              => /\ ret'[t].tag = "bool"
                 /\ ret'[t].val <=> (last = NoTime \/ now - last >= DaySeconds)
                 /\ users'[u].last_daily = last ]_vars

\* asked exactly 24 hours after the claim, can_claim_daily has said True
C15_Witness ==
  \E t \in Threads :
    /\ call[t].op = "can_claim_daily" /\ pc[t] = "done"
    /\ ret[t] = [tag |-> "bool", val |-> TRUE]
    /\ call[t].user \in DOMAIN users
    /\ users[call[t].user].last_daily = 0
    /\ now = DaySeconds

\* ---- persistence

\* the document a restart would load is the store in memory
WrittenThrough ==
  _load_data(disk) = [users |-> users, order |-> user_order,
                      global_stats |-> global_stats]

\* C20: when a mutating ledger operation returns to its caller, the
\* persisted document equals the in-memory store (here: whenever the last
\* write did not fail).
C20_WriteThrough ==
  [][ \A t \in Threads :
        (pc[t] # "done" /\ pc'[t] = "done" /\ ret'[t].tag # "raise"
           /\ call[t].op \in {"get_user", "add_balance", "subtract_balance",
                              "update_stats", "claim_daily",
                              "reset_user_data", "update_global_stats"}
           /\ ~save_error')
        => WrittenThrough' ]_vars

\* thread t is at a line whose step calls _save_data (lines 71, 85, 96, 120,
\* 175 and 204 of database.py)
Saves(t) ==
  \/ pc[t] = "get_user:44" /\ frame[t].user \notin DOMAIN users
  \/ pc[t] = "add_balance:82"
  \/ /\ pc[t] = "subtract_balance:91"
     /\ frame[t].user_data.balance >= frame[t].amount
  \/ pc[t] = "update_stats:104" /\ frame[t].stat \in StatNames
  \/ /\ pc[t] = "update_global_stats:173"
     /\ frame[t].stat \in DOMAIN global_stats
  \/ pc[t] = "reset_user_data:201" /\ frame[t].user \in DOMAIN users

\* C21: when the durable write of a mutating ledger operation fails, the
\* operation reports a failure to its caller and the store in memory stays
\* as it was before the operation's mutation.
C21_FailedWriteRollsBack ==
  [][ \A t \in Threads :
        (Saves(t) /\ pc'[t] # pc[t] /\ save_error')
        => /\ users' = users
           /\ user_order' = user_order
           /\ global_stats' = global_stats
           /\ pc'[t] = "done" => ret'[t].tag = "raise" ]_vars

\* the store in memory
Store ==
  [users |-> users, order |-> user_order, global_stats |-> global_stats]

C25_CreditEffect ==
  [][ \A t \in Threads :
        (call'[t].op = "add_balance")
        => /\ ~Stuck(t)'
           /\ (pc[t] = "add_balance:82" /\ pc'[t] = "done")
              => LET u == call[t].user
                     a == call[t].amount
                 IN /\ users'[u].balance >= users[u].balance
                    /\ a >= 0 => users'[u].balance = users[u].balance + a
                    /\ users'[u] = [users[u] EXCEPT !.balance = users'[u].balance]
                    /\ DOMAIN users' = DOMAIN users
                    /\ \A v \in DOMAIN users \ {u} : users'[v] = users[v] ]_vars

\* in the store (us, ord), the account at place j of the dict comes before
\* the one at place i in the ordering by balance descending, ties first-seen
Precedes(us, ord, j, i) ==
  \/ us[ord[j]].balance > us[ord[i]].balance
  \/ us[ord[j]].balance = us[ord[i]].balance /\ j < i

\* the number of accounts that precede the one at place i
Ahead(us, ord, i) ==
  Cardinality({j \in 1..Len(ord) : Precedes(us, ord, j, i)})

\* thread t returns from operation op in this step
Returns(t, op) == call[t].op = op /\ pc[t] # "done" /\ pc'[t] = "done"

\* C26: get_leaderboard(limit) returns min(limit, number of accounts) rows,
\* the k-th being the row of the account that exactly k - 1 accounts precede
\* in the ordering by balance descending with ties in insertion order; the
\* call changes nothing in the store, and two calls with the same limit on
\* the same store have returned the same sequence.
C26_LeaderboardOrder ==
  /\ [][ \A t \in Threads :
           Returns(t, "get_leaderboard")
           => LET limit == call[t].amount
                  n == Len(user_order)
                  r == ret'[t].val
              IN /\ Len(r) = Min(limit, n)
                 /\ \A k \in 1..Len(r) :
                      \E i \in 1..n :
                        /\ r[k] = Rows(users, user_order)[i]
                        /\ Ahead(users, user_order, i) = k - 1
                 /\ Store' = Store ]_vars
  /\ [] \A t1, t2 \in Threads :
          (/\ pc[t1] = "done" /\ call[t1].op = "get_leaderboard"
           /\ pc[t2] = "done" /\ call[t2].op = "get_leaderboard"
           /\ call[t1].amount = call[t2].amount)
          => ret[t1] = ret[t2]

\* get_leaderboard(2) has returned accounts 2 and 3 of a store that holds
\* its accounts in the order 3, 1, 2, where 2 has the greatest balance and 3
\* and 1 tie; the other thread has got the same answer
C26_Witness ==
  /\ user_order = <<3, 1, 2>>
  /\ users[3].balance = users[1].balance
  /\ users[2].balance > users[1].balance
  /\ \A t \in Threads :
       /\ pc[t] = "done" /\ call[t].op = "get_leaderboard"
       /\ call[t].amount = 2
       /\ Len(ret[t].val) = 2
       /\ ret[t].val[1].user_id = 2
       /\ ret[t].val[2].user_id = 3

\* C27: get_user_rank(u) of an existing account returns 1 plus the number
\* of accounts that precede it in the ordering by balance descending with
\* ties in insertion order, however many accounts there are.
C27_RankCountsPredecessors ==
  [][ \A t \in Threads :
        (Returns(t, "get_user_rank") /\ call[t].user \in DOMAIN users)
        => \E i \in 1..Len(user_order) :
             /\ user_order[i] = call[t].user
             /\ ret'[t].val = 1 + Ahead(users, user_order, i) ]_vars

\* thread t executes the step at line in this step (the process goes on)
Executes(t, line) == pc[t] = line /\ pc'[t] # line /\ call'[t] = call[t]

\* C28: the first reference to an unknown user creates an account with
\* balance 10000, every counter 0 and last_daily unset, and returns it; a
\* reference to an existing account changes no balance, counter or claim
\* time of any account; after reset_user_data the account is absent (so the
\* next reference creates it anew with those values).
C28_AccountLifecycle ==
  [][ \A t \in Threads :
        LET u == frame[t].user
        IN /\ (Executes(t, "get_user:44") /\ u \notin DOMAIN users)
              => /\ DOMAIN users' = DOMAIN users \cup {u}
                 /\ users'[u].balance = 10000
                 /\ users'[u].total_bet = 0
                 /\ users'[u].total_won = 0
                 /\ users'[u].games_played = 0
                 /\ \A s \in StatNames : users'[u].stats[s] = 0
                 /\ users'[u].last_daily = NoTime
                 /\ \A v \in DOMAIN users : users'[v] = users[v]
                 /\ pc'[t] = "done" => ret'[t].val = users'[u]
           /\ (Executes(t, "get_user:44") /\ u \in DOMAIN users)
              => /\ DOMAIN users' = DOMAIN users
                 /\ \A v \in DOMAIN users :
                      users'[v] = [users[v] EXCEPT
                                     !.last_played = users'[v].last_played]
           /\ Executes(t, "reset_user_data:201")
              => /\ DOMAIN users' = DOMAIN users \ {u}
                 /\ \A v \in DOMAIN users' : users'[v] = users[v] ]_vars

\* user 1 was reset by one thread and referenced by the other after the
\* clock advanced: the account was created then, with the starting balance
\* and no claim, in memory and in the file
C28_Witness ==
  /\ disk.state = "ok" /\ ~save_error
  /\ 1 \in DOMAIN disk.doc.users
  /\ 1 \in DOMAIN users
  /\ disk.doc.users[1] = users[1]
  /\ users[1].created_at = MaxNow
  /\ users[1].balance = StartingBalance
  /\ users[1].last_daily = NoTime
  /\ \E t1, t2 \in Threads :
       /\ pc[t1] = "done" /\ call[t1].op = "reset_user_data"
       /\ call[t1].user = 1
       /\ pc[t2] = "done" /\ call[t2].op = "get_user" /\ call[t2].user = 1
       /\ ret[t2].val = users[1]

\* ---- public state

CommandNames == {"balance_command", "stats_command", "blackjack_command"}

\* the lines of the command handlers themselves
CommandLines ==
  {"balance_command:64", "balance_command:71", "stats_command:213",
   "stats_command:214", "blackjack_command:162", "blackjack_command:181",
   "blackjack_command:189"}

\* the handler thread t runs is inside the ledger or the session engine
InsideLedger(t) ==
  /\ call[t].op \in CommandNames
  /\ pc[t] \notin CommandLines \cup {"idle", "done"}

\* C31: a command handler is inside the ledger or the session engine only
\* after the rate limiter allowed it, and a handler the limiter denied has
\* returned the cooldown message without having touched the store.
C31_CommandsGated ==
  /\ [] \A t \in Threads :
          /\ InsideLedger(t) => call[t].gate = "allowed"
          /\ call[t].gate = "denied"
               => pc[t] = "done" /\ ret[t] = [tag |-> "message",
                                             val |-> "cooldown"]
  /\ [][ \A t \in Threads :
           call'[t].gate = "denied" /\ call[t].gate # "denied"
           => /\ Store' = Store /\ disk' = disk
              /\ active_games' = active_games ]_vars

\* ---- statistics

\* C32: UpdateStat(user, name, delta) completes and adds delta to the named
\* counter; when name is total_winnings (total_losses) and delta exceeds
\* biggest_win (biggest_loss), that mark becomes delta, and otherwise the
\* marks stay.
C32_UpdateStatEffect ==
  [][ \A t \in Threads :
        (call'[t].op = "update_stats" /\ call'[t].stat \in StatNames)
        => /\ ~Stuck(t)'
           /\ (pc[t] = "update_stats:104" /\ pc'[t] = "done")
              => LET u == call[t].user
                     s == call[t].stat
                     v == call[t].amount
                     old == users[u].stats
                     new == users'[u].stats
                     mark(total, big) ==
                       IF s = total /\ v > old[big] THEN v ELSE old[big]
                 IN /\ s \notin {"biggest_win", "biggest_loss"}
                         => new[s] = old[s] + v
                    /\ new.biggest_win = mark("total_winnings", "biggest_win")
                    /\ new.biggest_loss = mark("total_losses", "biggest_loss")
                    /\ \A x \in StatNames \ {s, "biggest_win", "biggest_loss"} :
                         new[x] = old[x] ]_vars

\* ---- remaining cooldown

\* check_rate_limit(u, k) called now would return True
WouldAllow(u, k) ==
  k \notin DOMAIN cooldowns
    \/ ~Blocked(user_cooldowns, cooldowns, u, k, now)

\* C33: get_remaining_cooldown(user, kind) returns
\* max(0, cooldown(kind) - (now - last)), 0 when nothing is recorded or the
\* kind has no cooldown; the result is never negative, is 0 exactly when
\* check_rate_limit at the same instant would return True, and the call
\* changes no recorded time.
C33_RemainingCooldown ==
  [][ (/\ answer'.op = "get_remaining_cooldown"
       /\ <<answer, user_cooldowns>>' # <<answer, user_cooldowns>>)
      => LET u == answer'.user
             k == answer'.action
             r == answer'.val
             last == Entry(user_cooldowns, u, k)
             left == IF k \in DOMAIN cooldowns /\ last # NoTime
                       THEN cooldowns[k] - (now - last) ELSE 0
         IN /\ r = (IF left > 0 THEN left ELSE 0)
            /\ r >= 0
            /\ r = 0 <=> WouldAllow(u, k)
            /\ \A x \in UserIds, y \in ActionArgs :
                 Entry(user_cooldowns', x, y) = Entry(user_cooldowns, x, y)
            /\ last_allowed' = last_allowed /\ cooldowns' = cooldowns ]_vars

\* one instant after user 1 was allowed a game (cooldown 3 seconds), the
\* remaining cooldown was asked and is 2
C33_Witness ==
  /\ now = 1
  /\ Entry(user_cooldowns, 1, "game") = 0
  /\ answer = [op |-> "get_remaining_cooldown", user |-> 1,
               action |-> "game", val |-> 2]

\* ---- rounds

\* C34: every Start the player can pay for completes, and when it returns
\* the owner's blackjack_played counter is exactly 1 above what it was when
\* Start was called, whatever the outcome.
C34_StartCountsGame ==
  [][ \A t \in Threads :
        (call'[t].op = "play" /\ call'[t].amount <= call'[t].bal0)
        => /\ ~Stuck(t)'
           /\ (pc[t] # "done" /\ pc'[t] = "done")
              => StatsIn(users', call[t].user).blackjack_played
                   = call[t].stats0.blackjack_played + 1 ]_vars

\* ---- hand rules

\* the value of a rank with the ace counted as 1
HardRank(rank) ==
  CASE rank = "A" -> 1
    [] rank \in {"10", "J", "Q", "K"} -> 10
    [] rank = "2" -> 2 [] rank = "3" -> 3 [] rank = "4" -> 4
    [] rank = "5" -> 5 [] rank = "6" -> 6 [] rank = "7" -> 7
    [] rank = "8" -> 8 [] rank = "9" -> 9

\* the total of hand[1..n] with every ace counted as 1
RECURSIVE HardTotal(_, _)
HardTotal(hand, n) ==
  IF n = 0 THEN 0 ELSE HardTotal(hand, n - 1) + HardRank(hand[n].rank)

AcesIn(hand) == Cardinality({i \in 1..Len(hand) : hand[i].rank = "A"})

\* the totals of hand, counting each ace as 1 or as 11
Totals(hand) ==
  {HardTotal(hand, Len(hand)) + 10 * j : j \in 0..AcesIn(hand)}

\* the largest total not above 21, or the all-aces-as-1 total
BestTotal(hand) ==
  LET fit == {x \in Totals(hand) : x <= 21}
  IN IF fit # {}
       THEN CHOOSE x \in fit : \A y \in fit : y <= x
       ELSE HardTotal(hand, Len(hand))

\* the best total counts an ace as 11
IsSoft(hand) == BestTotal(hand) # HardTotal(hand, Len(hand))

\* C35: should_dealer_hit is true exactly when the dealer's total is below
\* 17, or is 17 with an ace counted as 11 (wherever the aces are and however
\* many there are); the dealer stops on a hard 17 and above 17.
C35_DealerDrawsToSoft17 ==
  \A t \in Threads :
    (pc[t] = "done" /\ call[t].op = "should_dealer_hit")
    => LET hand == games[call[t].game].dealer_hand
       IN ret[t].val <=> \/ BestTotal(hand) < 17
                         \/ BestTotal(hand) = 17 /\ IsSoft(hand)

\* C36: hand_value is the largest total not above 21 obtainable by counting
\* each ace as 1 or 11 (faces 10, numerals their number), or the total with
\* every ace as 1 when all totals are above 21; a hand is a natural exactly
\* when it has two cards and that total is 21.
C36_HandValueIsBest ==
  \A t \in Threads :
    (pc[t] = "done" /\ call[t].op = "hand_value")
    => LET hand == games[call[t].game].dealer_hand
       IN /\ ret[t].val = BestTotal(hand)
          /\ is_blackjack(hand) <=> (Len(hand) = 2 /\ BestTotal(hand) = 21)

\* hand_value has returned 21 for {A, A, A, 8}: one ace as 11, two as 1
C36_Witness ==
  \E t \in Threads :
    /\ pc[t] = "done" /\ call[t].op = "hand_value"
    /\ ret[t].val = 21
    /\ Len(games[call[t].game].dealer_hand) = 4
    /\ \A i \in 1..3 : games[call[t].game].dealer_hand[i].rank = "A"
    /\ games[call[t].game].dealer_hand[4].rank = "8"

\* ---- the ledger lock

\* C37: no ledger operation ever waits for the ledger lock while its own call
\* chain holds it (so an operation invoked alone takes the lock, returns and
\* leaves the lock free).
C37_NoSelfDeadlock ==
  \A t \in Threads : ~(Waiting(t) /\ lock = t)

====
